---- MODULE Spec2Model ----
(***************************************************************************)
(* KBEngine common library: the timer scheduler (timer.h / timer.inl),     *)
(* the object pool (objectpool.h) and intrusive reference counting         *)
(* (refcountable.h).                                                       *)
(*                                                                         *)
(* The three components share no state.  Each has its own specification:   *)
(*   Spec      the timer scheduler TimersT<uint32>                         *)
(*   PoolSpec  ObjectPool<T> used by several threads                       *)
(*   RefSpec   RefCountable / SafeRefCountable                             *)
(* A specification keeps the variables of the other components fixed.      *)
(***************************************************************************)
EXTENDS Integers, Sequences, FiniteSets, TLC

VARIABLES
    \* ---- TimersT<TIME_STAMP> (timer.h:247-250) ----
    timeQueue_,          \* PriorityQueue::container_: sequence of Time* (addresses)
    mem,                 \* the heap memory holding Time objects: address -> object
    pProcessingNode_,    \* Time* being processed, NULL otherwise
    lastProcessTime_,
    numCancelled_,
    numTimesRegistered_, \* TimerHandler::numTimesRegistered_, per handler
    \* ---- the activation of process(now) while a handler callback runs ----
    pc,                  \* "idle" | "callback" (inside handleTimeout of pProcessingNode_)
    processNow,          \* argument now of the running process call
    numFired,            \* local numFired of the running process call; between calls,
                         \* the value the last process call returned
    \* ---- instrumentation (no counterpart in the code) ----
    hist,                \* per created entry: handle, start time, interval, firings, frees
    prevFireTime,        \* trigger time of the previous firing of the running process call
    purged,              \* purgeCancelledTimes ran during the last operation
    fault,               \* "none", or the KBE_ASSERT / memory fault that stopped the program
    scn,                 \* progress of the run along the scenario add A, add B, process, process
    \* ---- ObjectPool<T> (objectpool.h:282-298) ----
    objects_, obj_count_, total_allocs_, max_, isDestroyed_, mutex_,
    tpc,                 \* per thread: where it is inside createObject / reclaimObject
    tlocal,              \* per thread: the local T* t / the argument obj
    held,                \* per thread: the objects it has checked out
    objState,            \* the memory holding pool objects: address -> "unalloc" | "alloc"
    idleOrder,           \* instrumentation: the idle objects, the longest idle first
    enabled,             \* instrumentation: objects whose onEabledPoolObject hook has run
                         \* since they were last idle
    numCreates,          \* instrumentation: number of createObject calls (and direct
                         \* assignObjs calls) made
    \* ---- RefCountable / SafeRefCountable (refcountable.h) ----
    refKind,             \* the class: RefCountable or a SafeRefCountable variant
    refCount_,
    refDestroyed,        \* number of times onRefOver has run
    refCountAtDestroy,   \* refCount_ as read by each run of onRefOver
    refIncs, refDecs,    \* number of incRef / decRef calls made
    rpc,                 \* per thread inside SafeRefCountable::decRef: where it is
    rcurr,               \* per thread: its local currRef
    handles              \* number of RefCountedPtr objects outstanding on the object

timerVars == <<timeQueue_, mem, pProcessingNode_, lastProcessTime_, numCancelled_,
               numTimesRegistered_, pc, processNow, numFired, hist, prevFireTime,
               purged, fault, scn>>
poolVars  == <<objects_, obj_count_, total_allocs_, max_, isDestroyed_, mutex_,
               tpc, tlocal, held, objState, idleOrder, enabled, numCreates>>
refVars   == <<refKind, refCount_, refDestroyed, refCountAtDestroy, refIncs, refDecs,
               rpc, rcurr, handles>>
vars      == <<timerVars, poolVars, refVars>>

-----------------------------------------------------------------------------
(* Bounds of the model *)

\* total number of add() calls in a run; also the number of addresses the
\* allocator hands out for Time objects
MaxAdds == 2

\* number of threads using the object pool
NumThreads == 2

\* number of pool objects a thread keeps checked out at a time
MaxHeld == 1

\* largest capacity ceiling (constructor argument max) an ObjectPool is built
\* with, apart from the default ceiling OBJECT_POOL_INIT_MAX_SIZE
MaxCeiling == 2

\* total number of createObject calls (and direct assignObjs calls) in a run
MaxCreates == 4

\* number of incRef calls on a reference-counted object
MaxIncRefs == 8

\* largest number of references, each owned by a thread of its own, a
\* SafeRefCountable object holds when the threads start to release them
MaxOwners == 4

\* width in bits of TIME_STAMP.  TimersT is a template over the unsigned type
\* TIME_STAMP (timer.h:126, instantiated with uint32 and uint64 at timer.h:257-258);
\* the model instantiates it with a narrower unsigned type, whose arithmetic
\* wraps in the same way
TimeStampBits == 8

-----------------------------------------------------------------------------
(* Timer scheduler: data *)

NULL == 0

\* unsigned TIME_STAMP arithmetic is modulo 2^TimeStampBits
Modulus == 2 ^ TimeStampBits

Addr     == 1 .. MaxAdds
\* the TimerHandler objects timers are registered against
Handlers == {1}

\* inputs of add() and process()
StartTimes == {50, 100}
Intervals  == {0, 10}
Nows       == {60, 105}
\* the void * pUser values timers are added with
UserDatas  == {7}

\* an address that holds no Time object
FreeSlot == [time_ |-> 0, interval_ |-> 0, state_ |-> "FREE", pHandler_ |-> NULL,
             pUserData_ |-> NULL, uid |-> 0]

isCancelled(m, a) == m[a].state_ = "TIME_CANCELLED"

\* The part of the program state the scheduler's methods read and write,
\* threaded through the methods below.
Machine == [q |-> timeQueue_, m |-> mem, nc |-> numCancelled_,
            reg |-> numTimesRegistered_, h |-> hist, purged |-> FALSE, fault |-> fault]

-----------------------------------------------------------------------------
(* PriorityQueue: std::push_heap / pop_heap / make_heap over container_ with *)
(* Comparator, as libstdc++ implements them.  Indices are 0-based as in the  *)
(* library; q[i + 1] is *(first + i).                                        *)

\* Comparator with the comparison turned round
ComparatorLess(m, a, b) == m[a].time_ < m[b].time_

\* Comparator::operator(): a->time() > b->time()
Comparator(m, a, b) == m[a].time_ > m[b].time_

\* std::__push_heap: move value up from holeIndex while its parent compares greater
RECURSIVE PushHeapUp(_, _, _, _, _)
PushHeapUp(m, q, holeIndex, topIndex, value) ==
    LET parent == (holeIndex - 1) \div 2 IN
    IF holeIndex > topIndex /\ Comparator(m, q[parent + 1], value)
    THEN PushHeapUp(m, [q EXCEPT ![holeIndex + 1] = q[parent + 1]], parent, topIndex, value)
    ELSE [q EXCEPT ![holeIndex + 1] = value]

\* PriorityQueue::push: push_back, then std::push_heap
PushHeap(m, q, x) ==
    PushHeapUp(m, Append(q, x), Len(q), 0, x)

\* std::__adjust_heap, first loop: move the hole down to the preferred child
RECURSIVE AdjustDown(_, _, _, _, _)
AdjustDown(m, q, holeIndex, secondChild, len) ==
    IF secondChild < (len - 1) \div 2
    THEN LET sc0 == 2 * (secondChild + 1)
             sc  == IF Comparator(m, q[sc0 + 1], q[sc0]) THEN sc0 - 1 ELSE sc0
         IN AdjustDown(m, [q EXCEPT ![holeIndex + 1] = q[sc + 1]], sc, sc, len)
    ELSE [q |-> q, holeIndex |-> holeIndex, secondChild |-> secondChild]

\* std::__adjust_heap over the first len elements of q
AdjustHeap(m, q, holeIndex, len, value) ==
    LET d  == AdjustDown(m, q, holeIndex, holeIndex, len)
        sc == 2 * (d.secondChild + 1)
        e  == IF len % 2 = 0 /\ d.secondChild = (len - 2) \div 2
              THEN [q |-> [d.q EXCEPT ![d.holeIndex + 1] = d.q[sc]], holeIndex |-> sc - 1]
              ELSE [q |-> d.q, holeIndex |-> d.holeIndex]
    IN PushHeapUp(m, e.q, e.holeIndex, holeIndex, value)

\* PriorityQueue::pop: std::pop_heap, then pop_back
PopHeap(m, q) ==
    LET n == Len(q) IN
    IF n > 1
    THEN SubSeq(AdjustHeap(m, [q EXCEPT ![n] = q[1]], 0, n - 1, q[n]), 1, n - 1)
    ELSE SubSeq(q, 1, n - 1)

\* PriorityQueue::make_heap: std::make_heap
RECURSIVE MakeHeapFrom(_, _, _)
MakeHeapFrom(m, q, parent) ==
    LET q1 == AdjustHeap(m, q, parent, Len(q), q[parent + 1]) IN
    IF parent = 0 THEN q1 ELSE MakeHeapFrom(m, q1, parent - 1)

MakeHeap(m, q) ==
    IF Len(q) < 2 THEN q ELSE MakeHeapFrom(m, q, (Len(q) - 2) \div 2)

\* std::partition(begin, end, IsNotCancelled) for bidirectional iterators:
\* returns the rearranged container and the index newEnd
RECURSIVE SkipTrue(_, _, _, _)
SkipTrue(m, q, first, last) ==
    IF first # last /\ ~isCancelled(m, q[first + 1]) THEN SkipTrue(m, q, first + 1, last)
    ELSE first

RECURSIVE SkipFalse(_, _, _, _)
SkipFalse(m, q, first, last) ==
    IF first # last /\ isCancelled(m, q[last + 1]) THEN SkipFalse(m, q, first, last - 1)
    ELSE last

RECURSIVE Partition(_, _, _, _)
Partition(m, q, first0, last0) ==
    LET first == SkipTrue(m, q, first0, last0) IN
    IF first = last0 THEN [q |-> q, newEnd |-> first]
    ELSE LET last == SkipFalse(m, q, first, last0 - 1) IN
         IF first = last THEN [q |-> q, newEnd |-> first]
         ELSE Partition(m, [q EXCEPT ![first + 1] = q[last + 1], ![last + 1] = q[first + 1]],
                        first + 1, last)

-----------------------------------------------------------------------------
(* Timer scheduler: methods, as functions on Machine records *)

\* delete pTime (an address): the object is gone; hist records the free
Delete(T, a) ==
    IF T.m[a].state_ = "FREE"
    THEN [T EXCEPT !.fault = "double_free"]
    ELSE LET u == T.m[a].uid IN
         [T EXCEPT !.m[a] = FreeSlot,
                   !.h[u].freed = @ + 1,
                   !.h[u].endState = T.m[a].state_]

RECURSIVE DeleteAll(_, _)
DeleteAll(T, s) ==
    IF s = <<>> THEN T ELSE DeleteAll(Delete(T, Head(s)), Tail(s))

\* TimersT::purgeCancelledTimes
purgeCancelledTimes(T) ==
    LET p         == Partition(T.m, T.q, 0, Len(T.q))
        T1        == DeleteAll(T, SubSeq(p.q, p.newEnd + 1, Len(p.q)))
        numPurged == Len(p.q) - p.newEnd
        nc1       == T.nc - numPurged
        kept      == SubSeq(p.q, 1, p.newEnd)
    IN [T1 EXCEPT !.nc = nc1,
                  !.q = MakeHeap(T1.m, kept),
                  !.purged = TRUE,
                  !.fault = IF T1.fault = "none" /\ ~(nc1 = 0 \/ nc1 = 1)
                            THEN "assert_purge" ELSE T1.fault]

\* the purge test with >= for >
tooManyCancelledOrHalf(nc, size) == nc * 2 >= size

\* TimersT::onCancel, the test for too many cancelled timers in the queue
tooManyCancelled(nc, size) == nc * 2 > size

\* TimersT::onCancel
onCancel(T) ==
    LET T1 == [T EXCEPT !.nc = @ + 1] IN
    IF tooManyCancelled(T1.nc, Len(T1.q)) THEN purgeCancelledTimes(T1) ELSE T1

\* TimeBase::cancel past its first test: state_ = TIME_CANCELLED;
\* pHandler_->release(...) (onRelease is the empty default); owner_.onCancel()
cancelEffect(T, a) ==
    LET hd == T.m[a].pHandler_
        T1 == [T EXCEPT !.m[a].state_ = "TIME_CANCELLED",
                        !.m[a].pHandler_ = NULL,
                        !.reg = IF hd # NULL THEN [@ EXCEPT ![hd] = @ - 1] ELSE @]
    IN onCancel(T1)

\* cancel without the test for an entry already Cancelled
cancelUnguarded(T, a) == cancelEffect(T, a)

\* TimeBase::cancel
cancel(T, a) ==
    IF isCancelled(T.m, a) THEN T ELSE cancelEffect(T, a)

\* TimersT::legal
legal(handle) ==
    /\ handle # NULL
    /\ \/ handle = pProcessingNode_
       \/ \E i \in 1 .. Len(timeQueue_) : timeQueue_[i] = handle

\* TimersT::nextExp: the subtraction is on the unsigned TIME_STAMP
nextExp(now) ==
    IF timeQueue_ = <<>> \/ now > mem[timeQueue_[1]].time_
    THEN 0
    ELSE (mem[timeQueue_[1]].time_ - now) % Modulus

\* TimersT::getTimerInfo on a handle whose entry exists: the returned bool
\* and the three reference arguments after the call
getTimerInfo(handle, time, interval, pUser) ==
    IF ~isCancelled(mem, handle)
    THEN [ok |-> TRUE, time |-> mem[handle].time_, interval |-> mem[handle].interval_,
          pUser |-> mem[handle].pUserData_]
    ELSE [ok |-> FALSE, time |-> time, interval |-> interval, pUser |-> pUser]

\* TimersT::clear, the loop: scc is shouldCallCancel, mlc is maxLoopCount
RECURSIVE clearLoop(_, _, _)
clearLoop(T, scc, mlc) ==
    IF T.q = <<>> \/ T.fault # "none" THEN T
    ELSE LET pTime == T.q[Len(T.q)]
             T0    == [T EXCEPT !.q = SubSeq(T.q, 1, Len(T.q) - 1)]   \* unsafePopBack
         IN IF ~isCancelled(T0.m, pTime) /\ scc
            THEN LET T1 == cancel([T0 EXCEPT !.nc = @ - 1], pTime)
                 IN clearLoop(Delete(T1, pTime), IF mlc - 1 = 0 THEN FALSE ELSE scc, mlc - 1)
            ELSE IF isCancelled(T0.m, pTime)
            THEN clearLoop(Delete([T0 EXCEPT !.nc = @ - 1], pTime), scc, mlc)
            ELSE clearLoop(Delete(T0, pTime), scc, mlc)

\* TimersT::clear
clear(T, shouldCallCancel) ==
    LET T1 == clearLoop(T, shouldCallCancel, Len(T.q)) IN
    IF T1.fault # "none" THEN T1 ELSE [T1 EXCEPT !.nc = 0, !.q = <<>>]

\* the loop condition with < for <=
dueStrictly(T, now) ==
    T.q # <<>> /\ (T.m[T.q[1]].time_ < now \/ isCancelled(T.m, T.q[1]))

\* TimersT::process, the loop condition
due(T, now) ==
    T.q # <<>> /\ (T.m[T.q[1]].time_ <= now \/ isCancelled(T.m, T.q[1]))

\* the else branch without the delete
reapWithoutDelete(T, pTime) ==
    [T EXCEPT !.fault = IF @ = "none" /\ ~(T.nc > 0) THEN "assert_process" ELSE @,
              !.nc = @ - 1]

\* TimersT::process, the else branch: delete pTime; KBE_ASSERT( numCancelled_ > 0 );
\* --numCancelled_
reap(T, pTime) ==
    LET T1 == Delete(T, pTime) IN
    [T1 EXCEPT !.fault = IF @ = "none" /\ ~(T1.nc > 0) THEN "assert_process" ELSE @,
               !.nc = @ - 1]

\* every popped entry counted
numFiredAfterAnyPop(nf, cancelled) == nf + 1

\* TimersT::process: if (!pTime->isCancelled()) { ++numFired; ... }
numFiredAfter(nf, cancelled) == IF cancelled THEN nf ELSE nf + 1

\* TimersT::process, the while loop, run until a handler callback is entered
\* (stop = "callback": node is Executing, handleTimeout is being called) or the
\* loop ends (stop = "done").
RECURSIVE processLoop(_, _, _)
processLoop(T, now, nf) ==
    IF T.fault # "none" THEN [T |-> T, stop |-> "done", node |-> NULL, nf |-> nf]
    ELSE IF due(T, now)
    THEN LET pTime == T.q[1]
             T0    == [T EXCEPT !.q = PopHeap(T.m, T.q)]
         IN IF ~isCancelled(T0.m, pTime)
            THEN \* ++numFired; triggerTimer: state_ = TIME_EXECUTING; handleTimeout(...)
                 [T    |-> [T0 EXCEPT !.m[pTime].state_ = "TIME_EXECUTING",
                                      !.h[T0.m[pTime].uid].fires = @ + 1],
                  stop |-> "callback", node |-> pTime, nf |-> numFiredAfter(nf, FALSE)]
            ELSE processLoop(reap(T0, pTime), now, numFiredAfter(nf, TRUE))
    ELSE [T |-> T, stop |-> "done", node |-> NULL, nf |-> nf]

\* the trigger time advanced twice
advanceTwice(time, interval) == (time + interval + interval) % Modulus

\* time_ += interval_ on the unsigned TIME_STAMP
advance(time, interval) == (time + interval) % Modulus

\* TimersT::Time::triggerTimer after handleTimeout has returned
triggerTimerTail(T, a) ==
    LET T1 == IF T.m[a].interval_ = 0 /\ ~isCancelled(T.m, a) THEN cancel(T, a) ELSE T IN
    IF ~isCancelled(T1.m, a)
    THEN [T1 EXCEPT !.m[a].time_ = advance(@, T1.m[a].interval_),
                    !.m[a].state_ = "TIME_PENDING"]
    ELSE T1

\* the entry re-pushed without looking at its state
processAfterTriggerAlwaysPush(T, a) ==
    [T EXCEPT !.q = PushHeap(T.m, T.q, a)]

\* TimersT::process after triggerTimer: re-push the entry or reap it
processAfterTrigger(T, a) ==
    IF ~isCancelled(T.m, a)
    THEN [T EXCEPT !.q = PushHeap(T.m, T.q, a)]
    ELSE reap(T, a)

-----------------------------------------------------------------------------
(* Timer scheduler: actions *)

Commit(T) ==
    /\ timeQueue_' = T.q
    /\ mem' = T.m
    /\ numCancelled_' = T.nc
    /\ numTimesRegistered_' = T.reg
    /\ hist' = T.h
    /\ purged' = T.purged
    /\ fault' = T.fault

\* the running process call reaches its next callback or returns
CommitProcess(r, now, prev) ==
    /\ Commit(r.T)
    /\ IF r.stop = "callback"
       THEN /\ pc' = "callback"
            /\ pProcessingNode_' = r.node
            /\ numFired' = r.nf
            /\ processNow' = now
            /\ prevFireTime' = prev
            /\ UNCHANGED lastProcessTime_
       ELSE /\ pc' = "idle"
            /\ pProcessingNode_' = NULL
            /\ lastProcessTime_' = IF r.T.fault = "none" THEN now ELSE lastProcessTime_
            /\ numFired' = r.nf
            /\ processNow' = 0
            /\ prevFireTime' = -1

\* new Time(...): the addresses the allocator may return.  It returns memory
\* never used before or reuses the memory of a freed Time object; among
\* addresses of the same kind the lowest stands for all of them.
Lowest(S) == {a \in S : \A b \in S : a <= b}

NewAddrs ==
    LET free  == {a \in Addr : mem[a].state_ = "FREE"}
        used  == {hist[u].handle : u \in 1 .. Len(hist)}
    IN Lowest(free \ used) \cup Lowest(free \cap used)

\* TimersT::add
Add(startTime, interval, pHandler, pUser) ==
    /\ pc = "idle" /\ fault = "none"
    /\ Len(hist) < MaxAdds
    /\ \E a \in NewAddrs :
         /\ LET uid == Len(hist) + 1
                m1  == [mem EXCEPT ![a] = [time_ |-> startTime, interval_ |-> interval,
                                           state_ |-> "TIME_PENDING",
                                           pHandler_ |-> pHandler,
                                           pUserData_ |-> pUser, uid |-> uid]]
            IN /\ mem' = m1
               /\ timeQueue_' = PushHeap(m1, timeQueue_, a)
               /\ hist' = Append(hist, [handle |-> a, start |-> startTime,
                                        interval |-> interval, user |-> pUser,
                                        fires |-> 0, freed |-> 0, endState |-> "NONE"])
    /\ numTimesRegistered_' = [numTimesRegistered_ EXCEPT ![pHandler] = @ + 1]
    /\ purged' = FALSE
    /\ scn' = IF scn = "start" /\ startTime = 100 /\ interval = 0 THEN "A"
              ELSE IF scn = "A" /\ startTime = 50 /\ interval = 10 THEN "AB"
              ELSE "off"
    /\ UNCHANGED <<pProcessingNode_, lastProcessTime_, numCancelled_, pc, processNow,
                   numFired, prevFireTime, fault>>
    /\ UNCHANGED <<poolVars, refVars>>

\* TimerHandle::cancel -> TimeBase::cancel, called between process calls
Cancel(a) ==
    /\ pc = "idle" /\ fault = "none"
    /\ mem[a].state_ # "FREE"
    /\ Commit(cancel(Machine, a))
    /\ scn' = "off"
    /\ UNCHANGED <<pProcessingNode_, lastProcessTime_, pc, processNow, numFired, prevFireTime>>
    /\ UNCHANGED <<poolVars, refVars>>

\* TimersT::process is called
ProcessBegin(now) ==
    /\ pc = "idle" /\ fault = "none"
    /\ CommitProcess(processLoop(Machine, now, 0), now, -1)
    /\ scn' = IF scn = "AB" /\ now = 60 THEN "P60"
              ELSE IF scn = "P60" /\ now = 105 THEN "P105"
              ELSE "off"
    /\ UNCHANGED <<poolVars, refVars>>

\* the handler, inside handleTimeout, cancels a timer: its own or another one
CbCancel(a) ==
    /\ pc = "callback" /\ fault = "none"
    /\ mem[a].state_ # "FREE"
    /\ Commit(cancel(Machine, a))
    /\ scn' = "off"
    /\ UNCHANGED <<pProcessingNode_, lastProcessTime_, pc, processNow, numFired, prevFireTime>>
    /\ UNCHANGED <<poolVars, refVars>>

\* handleTimeout returns: the rest of triggerTimer, the rest of the loop body,
\* and the loop up to the next callback or to the end of process
CbReturn ==
    /\ pc = "callback" /\ fault = "none"
    /\ LET a  == pProcessingNode_
           T1 == triggerTimerTail(Machine, a)
           T2 == processAfterTrigger(T1, a)
       IN CommitProcess(processLoop(T2, processNow, numFired), processNow, mem[a].time_)
    /\ UNCHANGED scn
    /\ UNCHANGED <<poolVars, refVars>>

\* TimersT::clear is called between process calls
Clear(shouldCallCancel) ==
    /\ pc = "idle" /\ fault = "none"
    /\ Commit(clear(Machine, shouldCallCancel))
    /\ scn' = "off"
    /\ UNCHANGED <<pProcessingNode_, lastProcessTime_, pc, processNow, numFired, prevFireTime>>
    /\ UNCHANGED <<poolVars, refVars>>

-----------------------------------------------------------------------------
(* Timer scheduler: specification *)

\* TimersT::TimersT, no timer added yet
TimerInit ==
    /\ timeQueue_ = <<>>
    /\ mem = [a \in Addr |-> FreeSlot]
    /\ pProcessingNode_ = NULL
    /\ lastProcessTime_ = 0
    /\ numCancelled_ = 0
    /\ numTimesRegistered_ = [hd \in Handlers |-> 0]
    /\ pc = "idle"
    /\ processNow = 0
    /\ numFired = 0
    /\ hist = <<>>
    /\ prevFireTime = -1
    /\ purged = FALSE
    /\ fault = "none"
    /\ scn = "start"

\* the object pool and the reference count, not in use
PoolUnused ==
    /\ objects_ = <<>> /\ obj_count_ = 0 /\ total_allocs_ = 0 /\ max_ = 1
    /\ isDestroyed_ = FALSE /\ mutex_ = NULL
    /\ tpc = <<>> /\ tlocal = <<>> /\ held = <<>> /\ objState = <<>>
    /\ idleOrder = <<>> /\ enabled = {} /\ numCreates = 0

RefUnused ==
    /\ refKind = "none" /\ refCount_ = 0 /\ refDestroyed = 0
    /\ refCountAtDestroy = <<>> /\ refIncs = 0 /\ refDecs = 0
    /\ rpc = <<>> /\ rcurr = <<>> /\ handles = 0

Init == TimerInit /\ PoolUnused /\ RefUnused

Next ==
    \/ \E t \in StartTimes, i \in Intervals, h \in Handlers, u \in UserDatas : Add(t, i, h, u)
    \/ \E a \in Addr : Cancel(a)
    \/ \E now \in Nows : ProcessBegin(now)
    \/ \E a \in Addr : CbCancel(a)
    \/ CbReturn
    \/ \E scc \in BOOLEAN : Clear(scc)

Spec == Init /\ [][Next]_vars

-----------------------------------------------------------------------------
(* Timer scheduler whose handlers also call clear() inside handleTimeout *)

\* the handler, inside handleTimeout, calls TimersT::clear
CbClear(shouldCallCancel) ==
    /\ pc = "callback" /\ fault = "none"
    /\ Commit(clear(Machine, shouldCallCancel))
    /\ scn' = "off"
    /\ UNCHANGED <<pProcessingNode_, lastProcessTime_, pc, processNow, numFired, prevFireTime>>
    /\ UNCHANGED <<poolVars, refVars>>

ReentrantNext ==
    \/ Next
    \/ \E scc \in BOOLEAN : CbClear(scc)

ReentrantSpec == Init /\ [][ReentrantNext]_vars

-----------------------------------------------------------------------------
(* Timer scheduler with trigger times near the largest TIME_STAMP *)

\* the firings counted by the model are counted up to MaxFirings
MaxFirings == 3

HalfRange      == Modulus \div 2
WrapStartTimes == {Modulus - 6, 4}
WrapIntervals  == {0, HalfRange}
WrapNows       == {Modulus - 1, HalfRange}

Min(x, y) == IF x <= y THEN x ELSE y

\* the state process has reached, its counts of firings (the local numFired and
\* the history's fires) stopped at MaxFirings
CapFirings(r) ==
    [r EXCEPT !.nf  = Min(@, MaxFirings),
              !.T.h = [u \in DOMAIN r.T.h |-> [r.T.h[u] EXCEPT !.fires = Min(@, MaxFirings)]]]

\* TimersT::process is called
WrapProcessBegin(now) ==
    /\ pc = "idle" /\ fault = "none"
    /\ \E r \in {CapFirings(processLoop(Machine, now, 0))} : CommitProcess(r, now, -1)
    /\ scn' = "off"
    /\ UNCHANGED <<poolVars, refVars>>

\* handleTimeout returns: the rest of triggerTimer, the rest of the loop body,
\* and the loop up to the next callback or to the end of process
WrapCbReturn ==
    /\ pc = "callback" /\ fault = "none"
    /\ \E a \in {pProcessingNode_} :
       \E T1 \in {triggerTimerTail(Machine, a)} :
       \E T2 \in {processAfterTrigger(T1, a)} :
       \E r \in {CapFirings(processLoop(T2, processNow, numFired))} :
          CommitProcess(r, processNow, mem[a].time_)
    /\ UNCHANGED scn
    /\ UNCHANGED <<poolVars, refVars>>

WrapSpecInit == TimerInit /\ PoolUnused /\ RefUnused

\* handlers cancel timers inside their callbacks and add none
WrapNext ==
    \/ \E t \in WrapStartTimes, i \in WrapIntervals, h \in Handlers, u \in UserDatas :
          Add(t, i, h, u)
    \/ \E a \in Addr : Cancel(a)
    \/ \E now \in WrapNows : WrapProcessBegin(now)
    \/ \E a \in Addr : CbCancel(a)
    \/ WrapCbReturn

\* a handler returns from handleTimeout, and process then runs on
WrapSpec == WrapSpecInit /\ [][WrapNext]_vars /\ WF_vars(WrapCbReturn)

-----------------------------------------------------------------------------
(* Timer scheduler: properties *)

Created == 1 .. Len(hist)

\* entry u has been freed / is still allocated
Freed(u) == hist[u].freed > 0
Live(u)  == hist[u].freed = 0
\* the state of a live entry
StateOf(u) == mem[hist[u].handle].state_
TimeOf(u)  == mem[hist[u].handle].time_

InQueue(q, a) == \E i \in 1 .. Len(q) : q[i] = a

\* C1: within one process(now) call the handler callbacks are invoked in
\* non-decreasing order of the trigger time the entry has when it fires, and
\* no entry fires with a trigger time above now.
C1_FiringOrder ==
    pc = "callback" =>
        /\ prevFireTime <= mem[pProcessingNode_].time_
        /\ mem[pProcessingNode_].time_ <= processNow

\* two timers added with distinct trigger times have both fired in this call,
\* the second at a later trigger time than the first
C1_Witness ==
    /\ pc = "callback"
    /\ Len(hist) = 2 /\ hist[1].start # hist[2].start
    /\ hist[1].fires >= 1 /\ hist[2].fires >= 1
    /\ prevFireTime >= 0 /\ prevFireTime < mem[pProcessingNode_].time_

\* C2, as stated: after add A (100, 0), add B (50, 10) on an empty scheduler,
\* process(60) fires B once and leaves it at 60; process(105) fires A once
\* (Cancelled afterwards) and B four more times, leaving B at 100; then
\* legal(A) is false and legal(B) is true.
C2_ScenarioAsStated ==
    /\ (scn = "P60" /\ pc = "idle") =>
          /\ hist[1].fires = 0
          /\ hist[2].fires = 1 /\ TimeOf(2) = 60
    /\ (scn = "P105" /\ pc = "idle") =>
          /\ hist[1].fires = 1 /\ Freed(1) /\ hist[1].endState = "TIME_CANCELLED"
          /\ hist[2].fires = 1 + 4 /\ Live(2) /\ TimeOf(2) = 100
          /\ ~legal(hist[1].handle) /\ legal(hist[2].handle)

\* C2, amended: process(60) fires B twice (at 50 and at 60) and leaves it at 70;
\* process(105) fires A once (Cancelled and freed afterwards) and B four more
\* times (at 70, 80, 90, 100), leaving B at 110; then legal(A) is false and
\* legal(B) is true.
C2_Scenario ==
    /\ (scn = "P60" /\ pc = "idle") =>
          /\ hist[1].fires = 0
          /\ hist[2].fires = 2 /\ TimeOf(2) = 70
    /\ (scn = "P105" /\ pc = "idle") =>
          /\ hist[1].fires = 1 /\ Freed(1) /\ hist[1].endState = "TIME_CANCELLED"
          /\ hist[2].fires = 2 + 4 /\ Live(2) /\ TimeOf(2) = 110
          /\ ~legal(hist[1].handle) /\ legal(hist[2].handle)

\* the scenario has been run to its end
C2_Witness == scn = "P105" /\ pc = "idle"

\* C3: a one-shot timer fires at most once and is Cancelled right after that
\* firing (it is Executing only during the callback, Cancelled and reaped when
\* the callback has returned); the n-th firing of a recurring timer that has
\* not been cancelled happens at trigger time start + (n - 1) * interval, and
\* between firings its trigger time is start + n * interval.
C3_OneShotAndRecurring ==
    \A u \in Created :
        /\ hist[u].interval = 0 =>
              /\ hist[u].fires <= 1
              /\ hist[u].fires = 1 =>
                    \/ Live(u) /\ StateOf(u) = "TIME_EXECUTING"
                    \/ Live(u) /\ StateOf(u) = "TIME_CANCELLED" /\ pc = "callback"
                               /\ pProcessingNode_ = hist[u].handle
                    \/ Freed(u) /\ hist[u].endState = "TIME_CANCELLED"
        /\ (hist[u].interval > 0 /\ Live(u)) =>
              /\ StateOf(u) = "TIME_EXECUTING" =>
                    TimeOf(u) = hist[u].start + (hist[u].fires - 1) * hist[u].interval
              /\ StateOf(u) = "TIME_PENDING" =>
                    TimeOf(u) = hist[u].start + hist[u].fires * hist[u].interval

\* a recurring timer is in its sixth firing and a one-shot timer has fired
\* and is gone
C3_Witness ==
    \E u, v \in Created :
        /\ hist[u].interval > 0 /\ hist[u].fires >= 6
        /\ Live(u) /\ StateOf(u) = "TIME_EXECUTING"
        /\ hist[v].interval = 0 /\ hist[v].fires = 1 /\ Freed(v)

\* C4: an entry that is Cancelled (or already freed) never fires again, and
\* an entry cancelled inside its own callback (Cancelled while out of the
\* heap) is not pushed back into the heap.
C4_CancelStopsFiring ==
    [][\A u \in Created :
          /\ (Freed(u) \/ StateOf(u) = "TIME_CANCELLED") => hist'[u].fires = hist[u].fires
          /\ (Live(u) /\ StateOf(u) = "TIME_CANCELLED" /\ ~InQueue(timeQueue_, hist[u].handle))
                => ~InQueue(timeQueue_', hist[u].handle)]_vars

\* a recurring timer has cancelled itself inside its callback, and a timer
\* cancelled before its trigger time has been reaped, never fired, by a
\* process call whose now is past that trigger time
C4_Witness ==
    /\ pc = "callback"
    /\ mem[pProcessingNode_].state_ = "TIME_CANCELLED"
    /\ mem[pProcessingNode_].interval_ > 0
    /\ \E u \in Created :
          /\ Freed(u) /\ hist[u].endState = "TIME_CANCELLED"
          /\ hist[u].fires = 0 /\ hist[u].start <= processNow

\* C5, as stated: legal(handle) is true while the entry is Pending or Executing
\* and false in every state after the entry has been freed.
C5_LegalIffLive ==
    \A u \in Created :
        /\ (Live(u) /\ StateOf(u) \in {"TIME_PENDING", "TIME_EXECUTING"}) => legal(hist[u].handle)
        /\ Freed(u) => ~legal(hist[u].handle)


\* two timers have been created at one address: the first was freed and its
\* handle is still reported legal
C5_Witness ==
    \E u, v \in Created :
        /\ u # v /\ hist[u].handle = hist[v].handle
        /\ Freed(u) /\ Live(v) /\ legal(hist[u].handle)

\* the Cancelled entries resident in the heap
CancelledResident == {i \in 1 .. Len(timeQueue_) : isCancelled(mem, timeQueue_[i])}

\* C6: between calls the Cancelled entries resident in the heap are at most
\* half of the heap, and a cancel call runs purgeCancelledTimes exactly when
\* the cancellation takes effect and makes 2 * numCancelled_ exceed the heap
\* size.
C6_PurgeInvariant ==
    /\ [](pc = "idle" => 2 * Cardinality(CancelledResident) <= Len(timeQueue_))
    /\ [][\A a \in Addr :
            (Cancel(a) \/ CbCancel(a)) =>
                (purged' <=> (/\ ~isCancelled(mem, a)
                              /\ 2 * (numCancelled_ + 1) > Len(timeQueue_)))]_vars

\* between calls a Cancelled entry is resident in a heap of two
C6_Witness ==
    /\ pc = "idle"
    /\ Len(timeQueue_) = 2
    /\ Cardinality(CancelledResident) = 1

\* C7: no entry is freed twice; an entry that has not been freed is still
\* tracked by the scheduler (once in the heap, or as the processing node), so
\* none is lost before it is freed; a Cancelled entry out of the heap is never
\* pushed back; and clear frees every entry.
C7_FreedOnce ==
    /\ [](/\ fault # "double_free"
          /\ \A u \in Created :
                /\ hist[u].freed <= 1
                /\ Live(u) =>
                      /\ mem[hist[u].handle].uid = u
                      /\ Cardinality({i \in 1 .. Len(timeQueue_) :
                                        timeQueue_[i] = hist[u].handle})
                           + (IF pProcessingNode_ = hist[u].handle THEN 1 ELSE 0) = 1)
    /\ [][/\ \A u \in Created :
                (Live(u) /\ StateOf(u) = "TIME_CANCELLED"
                         /\ ~InQueue(timeQueue_, hist[u].handle))
                   => ~InQueue(timeQueue_', hist[u].handle)
          /\ (\E scc \in BOOLEAN : Clear(scc)) =>
                \A u \in Created : hist'[u].freed = 1]_vars

\* one timer was cancelled by its handler inside its own callback and reaped
\* by process, another was cancelled from outside and freed
C7_Witness ==
    \E u, v \in Created :
        /\ u # v
        /\ Freed(u) /\ hist[u].endState = "TIME_CANCELLED"
        /\ hist[u].interval > 0 /\ hist[u].fires >= 1
        /\ Freed(v) /\ hist[v].endState = "TIME_CANCELLED" /\ hist[v].fires = 0

\* the trigger times of the Pending entries
PendingTimes == {mem[a].time_ : a \in {b \in Addr : mem[b].state_ = "TIME_PENDING"}}

\* C14, as stated: between calls, nextExp(now) is the earliest trigger time
\* among the Pending entries minus now, and 0 when there is no Pending entry or
\* that time is already <= now; a Cancelled entry resident in the heap does not
\* decide the result.
C14_NextExpiry ==
    pc = "idle" =>
        \A now \in Nows :
            nextExp(now) =
                IF PendingTimes = {} THEN 0
                ELSE LET earliest == CHOOSE x \in PendingTimes : \A y \in PendingTimes : x <= y
                     IN IF earliest <= now THEN 0 ELSE earliest - now

\* handleTimeout invocations made so far
RECURSIVE FiresUpTo(_, _)
FiresUpTo(h, n) == IF n = 0 THEN 0 ELSE h[n].fires + FiresUpTo(h, n - 1)
TotalFires(h) == FiresUpTo(h, Len(h))

\* C15: numFired of a process call is at every point of the call the number
\* of handleTimeout invocations the call has made, so the value it returns is
\* the number of invocations of the whole call: each firing counts once, an
\* entry popped Cancelled and reaped without firing does not count.
C15_ReturnsFirings ==
    [][/\ (\E now \in Nows : ProcessBegin(now)) =>
              numFired' = TotalFires(hist') - TotalFires(hist)
       /\ CbReturn =>
              numFired' - numFired = TotalFires(hist') - TotalFires(hist)]_vars

\* a process call has returned 2 or more after reaping, without firing it, an
\* entry that was cancelled before its trigger time came
C15_Witness ==
    /\ pc = "idle"
    /\ numFired >= 2
    /\ \E u \in Created :
          /\ Freed(u) /\ hist[u].endState = "TIME_CANCELLED" /\ hist[u].fires = 0
          /\ hist[u].start <= lastProcessTime_

\* C16: cancelling an entry that is already Cancelled changes nothing (the
\* entries, the registration counts, numCancelled_, the heap) and runs no
\* purge; getTimerInfo on a Cancelled entry returns false and leaves its three
\* output arguments as they were, and on an entry not Cancelled returns true
\* with the entry's current trigger time, its interval and its user data.
C16_CancelTwiceAndInfo ==
    /\ [][\A a \in Addr :
            ((Cancel(a) \/ CbCancel(a)) /\ isCancelled(mem, a)) =>
                /\ UNCHANGED <<mem, numTimesRegistered_, numCancelled_, timeQueue_, hist>>
                /\ ~purged']_vars
    /\ [](\A u \in Created :
            Live(u) =>
                LET r == getTimerInfo(hist[u].handle, 1, 2, 3) IN
                IF StateOf(u) = "TIME_CANCELLED"
                THEN r = [ok |-> FALSE, time |-> 1, interval |-> 2, pUser |-> 3]
                ELSE /\ r.ok
                     /\ r.time = hist[u].start + hist[u].interval *
                                    (IF StateOf(u) = "TIME_EXECUTING"
                                     THEN hist[u].fires - 1 ELSE hist[u].fires)
                     /\ r.interval = hist[u].interval
                     /\ r.pUser = hist[u].user)

\* between calls a Cancelled entry and a Pending recurring entry that has
\* fired are resident in the heap
C16_Witness ==
    /\ pc = "idle"
    /\ \E u, v \in Created :
          /\ Live(u) /\ StateOf(u) = "TIME_CANCELLED" /\ InQueue(timeQueue_, hist[u].handle)
          /\ Live(v) /\ StateOf(v) = "TIME_PENDING" /\ hist[v].fires >= 1

\* C17, as stated: a handler's registration count is the number of existing
\* entries that still reference it, so it is 0 once all its entries have been
\* removed by cancel, one-shot firing or clear (with either argument).
C17_RegistrationCount ==
    \A hd \in Handlers :
        numTimesRegistered_[hd] =
            Cardinality({u \in Created : Live(u) /\ mem[hist[u].handle].pHandler_ = hd})

\* C22, as stated: numCancelled_ is the number of Cancelled entries resident
\* in the heap, plus one if the entry being processed is Cancelled, and neither
\* the assertion of purgeCancelledTimes nor the one of process fails, also when
\* handlers call cancel and clear inside their callbacks.
C22_CancelledCount ==
    /\ fault = "none" =>
          numCancelled_ = Cardinality(CancelledResident)
                          + (IF pProcessingNode_ # NULL /\ isCancelled(mem, pProcessingNode_)
                             THEN 1 ELSE 0)
    /\ fault \notin {"assert_purge", "assert_process"}

\* C21, as stated: each time a recurring entry (interval > 0) fires without
\* being cancelled, its trigger time after the firing is greater than before, by
\* exactly its interval, also for trigger times near the largest TIME_STAMP.
C21_TimeAdvances ==
    [][\A a \in Addr :
          (WrapCbReturn /\ pProcessingNode_ = a /\ mem[a].interval_ > 0 /\ ~isCancelled(mem, a))
              => /\ mem'[a].time_ = mem[a].time_ + mem[a].interval_
                 /\ mem'[a].time_ > mem[a].time_]_vars

\* C23, as stated: when handlers add no timers, a process call that has entered
\* a callback comes to its end: the loop fires each recurring entry finitely
\* often and exits.
C23_ProcessTerminates ==
    (pc = "callback") ~> (pc = "idle")

-----------------------------------------------------------------------------
(* ObjectPool<T> used by NumThreads threads *)

OBJECT_POOL_INIT_SIZE == 16
OBJECT_POOL_INIT_MAX_SIZE == OBJECT_POOL_INIT_SIZE * 16

Threads  == 1 .. NumThreads
\* room for the objects the threads hold and two batches of assignObjs
PoolAddr == 1 .. (2 * OBJECT_POOL_INIT_SIZE + NumThreads * MaxHeld)

\* ObjectPool::size
size == obj_count_

\* new T: the allocator returns the lowest address holding no object
NewObj(os) == CHOOSE o \in PoolAddr : os[o] = "unalloc" /\ \A x \in PoolAddr : os[x] = "unalloc" => o <= x

\* ObjectPool::assignObjs, i objects still to allocate, on the record
\* [objects, count, allocs, os]
RECURSIVE assignObjs(_, _)
assignObjs(P, i) ==
    IF i = 0 THEN P
    ELSE LET o == NewObj(P.os) IN
         assignObjs([objects |-> Append(P.objects, o), count |-> P.count + 1,
                     allocs |-> P.allocs + 1, os |-> [P.os EXCEPT ![o] = "alloc"]], i - 1)

\* ThreadMutex::lockMutex (thread/threadmutex.h) can return: no other thread
\* holds the mutex
lockMutex(t) == mutex_ = NULL

\* the front object handed out without being taken off the list
popFrontKeepsIt(objs) == objs

\* objects_.pop_front()
popFront(objs) == Tail(objs)

\* the object at the back of the list taken for the one at the front
back(objs) == objs[Len(objs)]

\* *objects_.begin()
begin(objs) == Head(objs)

\* the test without isDestroyed_
mustDeleteWhenFull(sz, mx, destroyed) == sz >= mx

\* reclaimObject_: if(size() >= max_ || isDestroyed_)
mustDelete(sz, mx, destroyed) == sz >= mx \/ destroyed

\* createObject: mutex_.lockMutex()
CreateLock(t) ==
    /\ tpc[t] = "idle"
    /\ Cardinality(held[t]) < MaxHeld
    /\ numCreates < MaxCreates
    /\ lockMutex(t)
    /\ mutex_' = t
    /\ tpc' = [tpc EXCEPT ![t] = "c_test"]
    /\ numCreates' = numCreates + 1
    /\ UNCHANGED <<objects_, obj_count_, total_allocs_, max_, isDestroyed_, tlocal, held, objState>>
    /\ UNCHANGED <<idleOrder, enabled>>
    /\ UNCHANGED <<timerVars, refVars>>

\* createObject: while(true) { if(obj_count_ > 0) ... ; assignObjs(); }
CreateTest(t) ==
    /\ tpc[t] = "c_test"
    /\ IF obj_count_ > 0
       THEN /\ tpc' = [tpc EXCEPT ![t] = "c_front"]
            /\ UNCHANGED <<objects_, obj_count_, total_allocs_, objState, idleOrder>>
       ELSE LET P == assignObjs([objects |-> objects_, count |-> obj_count_,
                                 allocs |-> total_allocs_, os |-> objState],
                                OBJECT_POOL_INIT_SIZE)
            IN /\ objects_' = P.objects
               /\ obj_count_' = P.count
               /\ total_allocs_' = P.allocs
               /\ objState' = P.os
               /\ idleOrder' = idleOrder \o SubSeq(P.objects, Len(objects_) + 1, Len(P.objects))
               /\ UNCHANGED tpc
    /\ UNCHANGED <<max_, isDestroyed_, mutex_, tlocal, held, enabled, numCreates>>
    /\ UNCHANGED <<timerVars, refVars>>

\* createObject: T* t = static_cast<T*>(*objects_.begin())
CreateFront(t) ==
    /\ tpc[t] = "c_front"
    /\ objects_ # <<>>
    /\ tlocal' = [tlocal EXCEPT ![t] = begin(objects_)]
    /\ tpc' = [tpc EXCEPT ![t] = "c_pop"]
    /\ UNCHANGED <<objects_, obj_count_, total_allocs_, max_, isDestroyed_, mutex_, held, objState>>
    /\ UNCHANGED <<idleOrder, enabled, numCreates>>
    /\ UNCHANGED <<timerVars, refVars>>

\* createObject: objects_.pop_front(); --obj_count_; t->onEabledPoolObject()
CreatePop(t) ==
    /\ tpc[t] = "c_pop"
    /\ objects_ # <<>>
    /\ objects_' = popFront(objects_)
    /\ obj_count_' = obj_count_ - 1
    /\ tpc' = [tpc EXCEPT ![t] = "c_unlock"]
    /\ idleOrder' = SelectSeq(idleOrder, LAMBDA o : o # tlocal[t])
    /\ enabled' = enabled \cup {tlocal[t]}
    /\ UNCHANGED <<total_allocs_, max_, isDestroyed_, mutex_, tlocal, held, objState, numCreates>>
    /\ UNCHANGED <<timerVars, refVars>>

\* createObject: mutex_.unlockMutex(); return t
CreateUnlock(t) ==
    /\ tpc[t] = "c_unlock"
    /\ mutex_' = NULL
    /\ held' = [held EXCEPT ![t] = @ \cup {tlocal[t]}]
    /\ tlocal' = [tlocal EXCEPT ![t] = NULL]
    /\ tpc' = [tpc EXCEPT ![t] = "idle"]
    /\ UNCHANGED <<objects_, obj_count_, total_allocs_, max_, isDestroyed_, objState>>
    /\ UNCHANGED <<idleOrder, enabled, numCreates>>
    /\ UNCHANGED <<timerVars, refVars>>

\* reclaimObject(T* obj) with an object the thread holds: mutex_.lockMutex()
ReclaimLock(t, obj) ==
    /\ tpc[t] = "idle"
    /\ obj \in held[t]
    /\ lockMutex(t)
    /\ mutex_' = t
    /\ held' = [held EXCEPT ![t] = @ \ {obj}]
    /\ tlocal' = [tlocal EXCEPT ![t] = obj]
    /\ tpc' = [tpc EXCEPT ![t] = "r_body"]
    /\ UNCHANGED <<objects_, obj_count_, total_allocs_, max_, isDestroyed_, objState>>
    /\ UNCHANGED <<idleOrder, enabled, numCreates>>
    /\ UNCHANGED <<timerVars, refVars>>

\* reclaimObject_(obj): obj->onReclaimObject(); delete the object or keep it idle
ReclaimBody(t) ==
    /\ tpc[t] = "r_body"
    /\ LET obj == tlocal[t] IN
       IF obj # NULL
       THEN /\ enabled' = enabled \ {obj}
            /\ IF mustDelete(size, max_, isDestroyed_)
               THEN /\ objState' = [objState EXCEPT ![obj] = "unalloc"]
                    /\ total_allocs_' = total_allocs_ - 1
                    /\ UNCHANGED <<objects_, obj_count_, idleOrder>>
               ELSE /\ objects_' = Append(objects_, obj)
                    /\ obj_count_' = obj_count_ + 1
                    /\ idleOrder' = Append(idleOrder, obj)
                    /\ UNCHANGED <<objState, total_allocs_>>
       ELSE UNCHANGED <<objects_, obj_count_, total_allocs_, objState, idleOrder, enabled>>
    /\ tlocal' = [tlocal EXCEPT ![t] = NULL]
    /\ tpc' = [tpc EXCEPT ![t] = "r_unlock"]
    /\ UNCHANGED <<max_, isDestroyed_, mutex_, held, numCreates>>
    /\ UNCHANGED <<timerVars, refVars>>

\* reclaimObject: mutex_.unlockMutex()
ReclaimUnlock(t) ==
    /\ tpc[t] = "r_unlock"
    /\ mutex_' = NULL
    /\ tpc' = [tpc EXCEPT ![t] = "idle"]
    /\ UNCHANGED <<objects_, obj_count_, total_allocs_, max_, isDestroyed_, tlocal, held, objState>>
    /\ UNCHANGED <<idleOrder, enabled, numCreates>>
    /\ UNCHANGED <<timerVars, refVars>>

\* ObjectPool(name, preAssignVal, max) with max >= 1, or ObjectPool(name) with
\* max_(OBJECT_POOL_INIT_MAX_SIZE): nothing is pre-assigned
PoolInit ==
    /\ objects_ = <<>>
    /\ max_ \in (1 .. MaxCeiling) \cup {OBJECT_POOL_INIT_MAX_SIZE}
    /\ isDestroyed_ = FALSE
    /\ mutex_ = NULL
    /\ total_allocs_ = 0
    /\ obj_count_ = 0
    /\ tpc = [t \in Threads |-> "idle"]
    /\ tlocal = [t \in Threads |-> NULL]
    /\ held = [t \in Threads |-> {}]
    /\ objState = [o \in PoolAddr |-> "unalloc"]
    /\ idleOrder = <<>>
    /\ enabled = {}
    /\ numCreates = 0

PoolNext ==
    \E t \in Threads :
        \/ CreateLock(t)
        \/ CreateTest(t)
        \/ CreateFront(t)
        \/ CreatePop(t)
        \/ CreateUnlock(t)
        \/ \E obj \in PoolAddr : ReclaimLock(t, obj)
        \/ ReclaimBody(t)
        \/ ReclaimUnlock(t)

PoolSpecInit == PoolInit /\ TimerInit /\ RefUnused

PoolSpec == PoolSpecInit /\ [][PoolNext]_vars

-----------------------------------------------------------------------------
(* ObjectPool<T> with destroy() *)

\* destroy: mutex_.lockMutex()
DestroyLock(t) ==
    /\ tpc[t] = "idle"
    /\ lockMutex(t)
    /\ mutex_' = t
    /\ tpc' = [tpc EXCEPT ![t] = "d_body"]
    /\ UNCHANGED <<objects_, obj_count_, total_allocs_, max_, isDestroyed_, tlocal, held, objState>>
    /\ UNCHANGED <<idleOrder, enabled, numCreates>>
    /\ UNCHANGED <<timerVars, refVars>>

\* destroy: isDestroyed_ = true; every idle object is deleted
\* (PoolObject::destructorPoolObject returns false); objects_.clear();
\* obj_count_ = 0
DestroyBody(t) ==
    /\ tpc[t] = "d_body"
    /\ isDestroyed_' = TRUE
    /\ objState' = [o \in PoolAddr |->
                        IF \E i \in 1 .. Len(objects_) : objects_[i] = o
                        THEN "unalloc" ELSE objState[o]]
    /\ objects_' = <<>>
    /\ obj_count_' = 0
    /\ idleOrder' = <<>>
    /\ tpc' = [tpc EXCEPT ![t] = "d_unlock"]
    /\ UNCHANGED <<total_allocs_, max_, mutex_, tlocal, held, enabled, numCreates>>
    /\ UNCHANGED <<timerVars, refVars>>

\* destroy: mutex_.unlockMutex()
DestroyUnlock(t) ==
    /\ tpc[t] = "d_unlock"
    /\ mutex_' = NULL
    /\ tpc' = [tpc EXCEPT ![t] = "idle"]
    /\ UNCHANGED <<objects_, obj_count_, total_allocs_, max_, isDestroyed_, tlocal, held, objState>>
    /\ UNCHANGED <<idleOrder, enabled, numCreates>>
    /\ UNCHANGED <<timerVars, refVars>>

PoolLifeNext ==
    \/ PoolNext
    \/ \E t \in Threads : DestroyLock(t)
    \/ \E t \in Threads : DestroyBody(t)
    \/ \E t \in Threads : DestroyUnlock(t)

PoolLifeSpec == PoolSpecInit /\ [][PoolLifeNext]_vars

-----------------------------------------------------------------------------
(* ObjectPool<T> whose public assignObjs is also called directly *)

\* the pcs of a thread inside code that modifies objects_, obj_count_ or
\* total_allocs_
Inside == {"c_test", "c_front", "c_pop", "c_unlock", "r_body", "r_unlock",
           "d_body", "d_unlock", "a_body", "raced"}

\* no data race has happened
NoRace == \A t \in Threads : tpc[t] # "raced"

\* a thread calls assignObjs(): the method is public and takes no lock.  The
\* call is made while the allocator has room for this batch and one of
\* createObject.
AssignEnter(t) ==
    /\ NoRace
    /\ tpc[t] = "idle"
    /\ Cardinality({o \in PoolAddr : objState[o] = "unalloc"}) >= 2 * OBJECT_POOL_INIT_SIZE
    /\ numCreates < MaxCreates
    /\ numCreates' = numCreates + 1
    /\ tpc' = [tpc EXCEPT ![t] = "a_body"]
    /\ UNCHANGED <<objects_, obj_count_, total_allocs_, max_, isDestroyed_, mutex_, tlocal, held, objState>>
    /\ UNCHANGED <<idleOrder, enabled>>
    /\ UNCHANGED <<timerVars, refVars>>

\* assignObjs, the loop.  With another thread inside the pool's code the
\* unsynchronised accesses to objects_, obj_count_ and total_allocs_ are a
\* data race: the thread is marked "raced" and the run is followed no further.
AssignBody(t) ==
    /\ NoRace
    /\ tpc[t] = "a_body"
    /\ IF \E u \in Threads \ {t} : tpc[u] \in Inside
       THEN /\ tpc' = [tpc EXCEPT ![t] = "raced"]
            /\ UNCHANGED <<objects_, obj_count_, total_allocs_, objState, idleOrder>>
       ELSE LET P == assignObjs([objects |-> objects_, count |-> obj_count_,
                                 allocs |-> total_allocs_, os |-> objState],
                                OBJECT_POOL_INIT_SIZE)
            IN /\ objects_' = P.objects
               /\ obj_count_' = P.count
               /\ total_allocs_' = P.allocs
               /\ objState' = P.os
               /\ idleOrder' = idleOrder \o SubSeq(P.objects, Len(objects_) + 1, Len(P.objects))
               /\ tpc' = [tpc EXCEPT ![t] = "idle"]
    /\ UNCHANGED <<max_, isDestroyed_, mutex_, tlocal, held, enabled, numCreates>>
    /\ UNCHANGED <<timerVars, refVars>>

PoolOpenNext ==
    \/ NoRace /\ PoolLifeNext
    \/ \E t \in Threads : AssignEnter(t)
    \/ \E t \in Threads : AssignBody(t)

PoolOpenSpec == PoolSpecInit /\ [][PoolOpenNext]_vars

-----------------------------------------------------------------------------
(* ObjectPool: properties *)

Allocated == {o \in PoolAddr : objState[o] = "alloc"}

\* the places an object is at: idle in the list, checked out by a thread, or
\* on its way between the two inside createObject / reclaimObject
Places(o) ==
    Cardinality({i \in 1 .. Len(objects_) : objects_[i] = o})
    + Cardinality({t \in Threads : o \in held[t]})
    + Cardinality({t \in Threads : tlocal[t] = o /\ tpc[t] \in {"c_unlock", "r_body"}})

\* C8, as stated: whenever no createObject or reclaimObject is under way, the
\* idle count is at most the capacity ceiling: size() <= max().
C8_IdleWithinCeiling ==
    mutex_ = NULL => size <= max_

\* C9: with the threads running createObject / reclaimObject concurrently,
\* every allocated object is at exactly one place (idle in the pool, held by
\* exactly one thread, or in transit under the lock), no freed object is at any
\* place, and totalAllocs() is the number of allocated objects.
C9_NoDuplicateNoLoss ==
    /\ \A o \in PoolAddr :
          Places(o) = (IF o \in Allocated THEN 1 ELSE 0)
    /\ total_allocs_ = Cardinality(Allocated)

\* every thread holds an object, no two the same one, after a reclaimed object
\* has been freed
C9_Witness ==
    /\ \A t \in Threads : held[t] # {}
    /\ \E t1, t2 \in Threads : held[t1] # held[t2]
    /\ total_allocs_ < OBJECT_POOL_INIT_SIZE

-----------------------------------------------------------------------------
(* RefCountable / SafeRefCountable used by one logical owner at a time *)

RefKinds == {"RefCountable", "SafeRefCountable_win32", "SafeRefCountable_asm"}

\* the value decRef compares with 0, given refCount_ before the decrement:
\*   RefCountable:            int currRef = --refCount_          (the new count)
\*   SafeRefCountable, Win32:  InterlockedDecrement(&refCount_)    (the new count)
\*   SafeRefCountable, other:  intDecRef(): mov $-1, ret; lock xadd ret, refCount_
\*                             (xadd leaves the count before the addition in ret)
currRef(kind, count) ==
    IF kind = "SafeRefCountable_asm" THEN count ELSE count - 1

\* incRef
IncRef ==
    /\ refDestroyed = 0
    /\ refIncs < MaxIncRefs
    /\ refIncs = 0 \/ refIncs > refDecs
    /\ refCount_' = refCount_ + 1
    /\ refIncs' = refIncs + 1
    /\ UNCHANGED <<refKind, refDestroyed, refCountAtDestroy, refDecs, rpc, rcurr, handles>>
    /\ UNCHANGED <<timerVars, poolVars>>

\* decRef by an owner: decrement; if (0 >= currRef) onRefOver(), which deletes
\* the object
DecRef ==
    /\ refDestroyed = 0
    /\ refIncs > refDecs
    /\ refCount_' = refCount_ - 1
    /\ refDecs' = refDecs + 1
    /\ IF 0 >= currRef(refKind, refCount_)
       THEN /\ refDestroyed' = refDestroyed + 1
            /\ refCountAtDestroy' = Append(refCountAtDestroy, refCount_')
       ELSE UNCHANGED <<refDestroyed, refCountAtDestroy>>
    /\ UNCHANGED <<refKind, refIncs, rpc, rcurr, handles>>
    /\ UNCHANGED <<timerVars, poolVars>>

\* RefCountable(void) : refCount_(0), of either class
RefInit ==
    /\ refKind \in RefKinds
    /\ refCount_ = 0
    /\ refDestroyed = 0
    /\ refCountAtDestroy = <<>>
    /\ refIncs = 0
    /\ refDecs = 0
    /\ rpc = <<>> /\ rcurr = <<>> /\ handles = 0

RefNext == IncRef \/ DecRef

RefSpecInit == RefInit /\ TimerInit /\ PoolUnused

RefSpec == RefSpecInit /\ [][RefNext]_vars

\* C10, as stated: over incRef / decRef calls whose running count stays
\* non-negative, the object is not destroyed while owners remain, and once the
\* calls sum to zero it has been destroyed exactly once, with the count
\* reading 0, for RefCountable and SafeRefCountable alike.
C10_DestroyedAtZero ==
    /\ refIncs > refDecs => refDestroyed = 0
    /\ (refIncs > 0 /\ refIncs = refDecs) =>
          /\ refDestroyed = 1
          /\ refCountAtDestroy = <<0>>

-----------------------------------------------------------------------------
(* SafeRefCountable released by several threads at once *)

SafeRefKinds == {"SafeRefCountable_win32", "SafeRefCountable_asm"}

\* SafeRefCountable::decRef, the atomic decrement: InterlockedDecrement /
\* intDecRef (lock xadd) changes refCount_ and leaves its result in currRef
SafeDecrement(t) ==
    /\ rpc[t] = "call"
    /\ refCount_' = refCount_ - 1
    /\ rcurr' = [rcurr EXCEPT ![t] = currRef(refKind, refCount_)]
    /\ refDecs' = refDecs + 1
    /\ rpc' = [rpc EXCEPT ![t] = "test"]
    /\ UNCHANGED <<refKind, refDestroyed, refCountAtDestroy, refIncs, handles>>
    /\ UNCHANGED <<timerVars, poolVars>>

\* SafeRefCountable::decRef, the rest: if (0 >= currRef) onRefOver(), which
\* deletes the object
SafeTest(t) ==
    /\ rpc[t] = "test"
    /\ IF 0 >= rcurr[t]
       THEN /\ refDestroyed' = refDestroyed + 1
            /\ refCountAtDestroy' = Append(refCountAtDestroy, refCount_)
       ELSE UNCHANGED <<refDestroyed, refCountAtDestroy>>
    /\ rpc' = [rpc EXCEPT ![t] = "done"]
    /\ UNCHANGED <<refKind, refCount_, refIncs, refDecs, rcurr, handles>>
    /\ UNCHANGED <<timerVars, poolVars>>

\* a SafeRefCountable object on which k threads have called incRef once each
SafeRefInit ==
    /\ refKind \in SafeRefKinds
    /\ \E k \in 1 .. MaxOwners :
          /\ refCount_ = k
          /\ refIncs = k
          /\ rpc = [t \in 1 .. k |-> "call"]
          /\ rcurr = [t \in 1 .. k |-> 0]
    /\ refDestroyed = 0
    /\ refCountAtDestroy = <<>>
    /\ refDecs = 0
    /\ handles = 0

SafeRefNext ==
    \/ \E t \in DOMAIN rpc : SafeDecrement(t)
    \/ \E t \in DOMAIN rpc : SafeTest(t)

SafeRefSpecInit == SafeRefInit /\ TimerInit /\ PoolUnused

SafeRefSpec == SafeRefSpecInit /\ [][SafeRefNext]_vars

\* C11, as stated: when the k threads owning the k references of a
\* SafeRefCountable object each call decRef once, in any interleaving, the
\* object is never destroyed twice, and when all have returned it has been
\* destroyed exactly once, by the decrement that took the count to zero.
C11_OneDestruction ==
    /\ refDestroyed <= 1
    /\ (\A t \in DOMAIN rpc : rpc[t] = "done") =>
          /\ refDestroyed = 1
          /\ refCountAtDestroy = <<0>>

-----------------------------------------------------------------------------
(* RefCountedPtr<T> handles sharing one RefCountable object *)

\* ptr_->addRef(): the count the call leaves.  RefCountable and
\* SafeRefCountable declare incRef and no addRef (refcountable.h:53-219), so
\* the call does not reach incRef through them: it resolves only to a member
\* the class T adds itself, which may or may not count the reference.
addRef(count) == {count, count + 1}

\* RefCountedPtr(T* ptr): if (ptr_) ptr_->addRef()
PtrConstruct ==
    /\ refDestroyed = 0
    /\ refIncs < MaxIncRefs
    /\ refCount_' \in addRef(refCount_)
    /\ handles' = handles + 1
    /\ refIncs' = refIncs + 1
    /\ UNCHANGED <<refKind, refDestroyed, refCountAtDestroy, refDecs, rpc, rcurr>>
    /\ UNCHANGED <<timerVars, poolVars>>

\* RefCountedPtr(RefCountedPtr<T>* refptr): ptr_(refptr->getObject());
\* if (ptr_) ptr_->addRef()
PtrCopy ==
    /\ refDestroyed = 0
    /\ handles >= 1
    /\ refIncs < MaxIncRefs
    /\ refCount_' \in addRef(refCount_)
    /\ handles' = handles + 1
    /\ refIncs' = refIncs + 1
    /\ UNCHANGED <<refKind, refDestroyed, refCountAtDestroy, refDecs, rpc, rcurr>>
    /\ UNCHANGED <<timerVars, poolVars>>

\* ~RefCountedPtr: if (0 != ptr_) ptr_->decRef()
PtrDestruct ==
    /\ refDestroyed = 0
    /\ handles >= 1
    /\ handles' = handles - 1
    /\ refCount_' = refCount_ - 1
    /\ refDecs' = refDecs + 1
    /\ IF 0 >= currRef(refKind, refCount_)
       THEN /\ refDestroyed' = refDestroyed + 1
            /\ refCountAtDestroy' = Append(refCountAtDestroy, refCount_')
       ELSE UNCHANGED <<refDestroyed, refCountAtDestroy>>
    /\ UNCHANGED <<refKind, refIncs, rpc, rcurr>>
    /\ UNCHANGED <<timerVars, poolVars>>

\* a RefCountable object (refCount_(0)) no handle refers to yet
PtrInit ==
    /\ refKind = "RefCountable"
    /\ refCount_ = 0
    /\ refDestroyed = 0
    /\ refCountAtDestroy = <<>>
    /\ refIncs = 0
    /\ refDecs = 0
    /\ rpc = <<>> /\ rcurr = <<>>
    /\ handles = 0

PtrNext == PtrConstruct \/ PtrCopy \/ PtrDestruct

PtrSpecInit == PtrInit /\ TimerInit /\ PoolUnused

PtrSpec == PtrSpecInit /\ [][PtrNext]_vars

\* C12, as stated: over constructions (from the raw pointer or as a copy of a
\* handle) and destructions of RefCountedPtr handles on one RefCountable
\* object, the count equals the number of outstanding handles while the object
\* lives, and the object is destroyed exactly when the last outstanding handle
\* is destroyed, once and with the count at 0.
C12_CountIsHandles ==
    /\ refDestroyed = 0 => refCount_ = handles
    /\ refDestroyed <= 1
    /\ refDestroyed = 1 <=> (refIncs > 0 /\ handles = 0)
    /\ refDestroyed = 1 => refCountAtDestroy = <<0>>

-----------------------------------------------------------------------------
(* ObjectPool with destroy(): properties *)

\* C13: once destroy() has run, isDestroyed() stays true, and every later
\* reclaimObject(obj) deletes obj and decrements totalAllocs() instead of
\* appending it to the idle list: the reclaim leaves size() as it was.
C13_DestroyedForGood ==
    /\ [][isDestroyed_ => isDestroyed_']_vars
    /\ [][\A t \in Threads :
            (isDestroyed_ /\ ReclaimBody(t) /\ tlocal[t] # NULL) =>
                /\ objState'[tlocal[t]] = "unalloc"
                /\ total_allocs_' = total_allocs_ - 1
                /\ objects_' = objects_
                /\ obj_count_' = obj_count_]_vars

\* a thread has reclaimed an object after destroy(), on a pool whose idle
\* list had room for it
C13_Witness ==
    /\ isDestroyed_
    /\ obj_count_ < max_
    /\ \E t \in Threads : tpc[t] = "r_unlock"

\* C18, as stated: whenever no operation is under way, totalAllocs() is the
\* number of objects allocated and not freed (idle plus checked out), after
\* any sequence of createObject, reclaimObject and destroy.
C18_TotalAllocsIsLive ==
    mutex_ = NULL => total_allocs_ = Cardinality(Allocated)

\* C20: createObject picks the object that has been idle longest, takes it off
\* the idle list and decrements the idle count by one, runs its
\* onEabledPoolObject hook before returning it, and returns an allocated
\* object, never NULL; with an empty idle list it first allocates one batch of
\* OBJECT_POOL_INIT_SIZE objects, all fresh, and otherwise allocates nothing.
C20_FifoReuse ==
    [][\A t \in Threads :
        /\ CreateFront(t) => tlocal'[t] = Head(idleOrder)
        /\ CreatePop(t) =>
              /\ obj_count_' = obj_count_ - 1
              /\ Len(objects_') = Len(objects_) - 1
              /\ \A i \in 1 .. Len(objects_') : objects_'[i] # tlocal[t]
        /\ (CreateTest(t) /\ obj_count_ = 0) =>
              /\ obj_count_' = OBJECT_POOL_INIT_SIZE
              /\ Len(objects_') = Len(objects_) + OBJECT_POOL_INIT_SIZE
              /\ \A i \in Len(objects_) + 1 .. Len(objects_') :
                    /\ objState[objects_'[i]] = "unalloc"
                    /\ objState'[objects_'[i]] = "alloc"
        /\ (CreateTest(t) /\ obj_count_ > 0) => UNCHANGED <<objects_, obj_count_, objState>>
        /\ CreateUnlock(t) =>
              /\ tlocal[t] # NULL
              /\ objState[tlocal[t]] = "alloc"
              /\ tlocal[t] \in enabled
              /\ held'[t] = held[t] \cup {tlocal[t]}]_vars

\* the first object handed out has been reclaimed to the back of the idle
\* list, and the next createObject is returning the second object of the
\* batch, idle longer than the reclaimed one
C20_Witness ==
    /\ Len(objects_) = OBJECT_POOL_INIT_SIZE - 1
    /\ objects_[Len(objects_)] = 1
    /\ \E t \in Threads : tpc[t] = "c_unlock" /\ tlocal[t] = 2

\* C19, as stated: createObject, reclaimObject, assignObjs and destroy run
\* under the pool's mutex: no two threads are at the same time inside code
\* that modifies objects_, obj_count_ or total_allocs_, a thread inside such
\* code holds the mutex, and a thread that has returned does not hold it.
C19_MutualExclusion ==
    /\ Cardinality({t \in Threads : tpc[t] \in Inside}) <= 1
    /\ \A t \in Threads : tpc[t] \in Inside <=> mutex_ = t

\* C24, as stated: once destroy() has run the pool keeps no idle object: the
\* idle list is empty and size() is 0 in every later state, whatever is called
\* on the pool afterwards, createObject included.
C24_NoIdleAfterDestroy ==
    isDestroyed_ => (objects_ = <<>> /\ obj_count_ = 0)

====
